---- MODULE Spec2Model ----
(***************************************************************************)
(* A model of universe_model.py: entities, interactions and their effects, *)
(* the observer's perceived graph, the five rule functions and the tick of *)
(* the Universe.                                                           *)
(*                                                                         *)
(* Entities are the numbers in Ent; the members of Observers are           *)
(* instances of Observer.  uuid.uuid4() is a fresh number taken from the   *)
(* counter next_uuid (interaction ids and group ids come from it).  Scales *)
(* are counted in hundredths (10 stands for 0.10).  Interaction.timestamp  *)
(* is read by no operation modelled here and is left out.                  *)
(***************************************************************************)
EXTENDS Integers, Sequences, FiniteSets, TLC

VARIABLES
  entity,                         \* id -> the Entity object's fields
  reality_model,                  \* observer id -> its MultiDiGraph
  entities,                       \* Universe.entities
  interaction_rules,              \* Universe.interaction_rules (rule names)
  interaction_history,            \* Universe.interaction_history
  persistent_pair,                \* module global persistent_pair
  persistent_interaction_count,   \* module global persistent_interaction_count
  next_uuid,                      \* the next value uuid.uuid4() returns
  set_order,                      \* iteration order of each frozenset of two ids met so far
  pc,                             \* position of the running tick: idle, rules, apply
  rule_idx,                       \* tick: index of the rule called next
  new_interactions,               \* tick: its local list new_interactions
  apply_idx,                      \* tick: index of the interaction processed next
  rule_outputs,                   \* what each rule call of the current tick returned
  returned,                       \* what the last completed tick returned
  raised,                         \* the last call ended in a ValueError
  tick_start,                     \* the entities' fields when the current tick began
  max_interactions,               \* the max_interactions passed to direct rule calls
  perceived                       \* observer id -> the interactions its perceive_signal was called with

vars == <<entity, reality_model, entities, interaction_rules, interaction_history,
          persistent_pair, persistent_interaction_count, next_uuid, set_order,
          pc, rule_idx, new_interactions, apply_idx, rule_outputs, returned,
          raised, tick_start, max_interactions, perceived>>

\* ------------------------------------------------------------------ bounds

\* Spec: at most MaxRules rules are registered, and a tick starts only while
\* the global history is shorter than MaxHistory
MaxRules == 2
MaxHistory == 2
\* EffectSpec: a tick starts only while the global history is shorter
MaxEffectHistory == 2
\* GroupSpec, BondSpec: a tick starts only while the global history is shorter
MaxGroupHistory == 4

\* SettleSpec: the caller's rule makes interactions only while the global
\* history is shorter
MaxSeeds == 2

\* SettleSpec: a tick starts only while the global history is shorter
MaxSettleHistory == 7
\* PersistSpec: max_interactions is one of 0..MaxN
MaxN == 2
\* ObserverSpec: a tick starts only while the global history is shorter than
\* MaxObserverHistory, and an interaction is constructed for a direct
\* perceive_signal call only while fewer than MaxPerceived exist
MaxObserverHistory == 2
MaxPerceived == 2
\* RuleSpec: the roster holds at most this many entries, and the rule
\* functions are called directly at most this many times
MaxRoster == 3
MaxCalls == 1
\* ResetSpec: persistent_interaction_rule constructs at most this many
\* interactions
MaxBonds == 4
\* PatternSpec: perceive_signal is called on at most this many interactions
MaxSignals == 4

\* ------------------------------------------------------------ python values

\* The entity objects constructed: an Observer (as in the main block, the first)
\* and two plain entities
Ent == {1, 2, 3}
Observers == {1}

\* Python's None, where a number (a group id) is expected.
NoneVal == 0

EmptyDict == [k \in {} |-> 0]

\* dict.get(k, d)
Get(d, k, dflt) == IF k \in DOMAIN d THEN d[k] ELSE dflt

\* d[k] = v
Put(d, k, v) == [x \in (DOMAIN d) \cup {k} |-> IF x = k THEN v ELSE d[x]]

\* A rule's return value: None, or a list.
PyNone == [none |-> TRUE, val |-> <<>>]
PyList(s) == [none |-> FALSE, val |-> s]

\* `if interactions:` - neither None nor an empty list
Truthy(r) == ~r.none /\ Len(r.val) > 0

Contains(s, x) == \E i \in 1..Len(s) : s[i] = x

\* ------------------------------------------------------------------ floats
\* Python floats are IEEE-754 doubles.  The doubles met here lie in [0, 1] and
\* are multiples of 2^-59 (the unit in the last place of 0.01, the smallest
\* positive scale written in hundredths).  The record [h, d] stands for the
\* real number (h * 2^59 + d) / (100 * 2^59): h hundredths plus d parts of
\* 1/(100 * 2^59); d is small, so the order of two values is the order of
\* their (h, d).
RECURSIVE Pow2(_)
Pow2(n) == IF n = 0 THEN 1 ELSE 2 * Pow2(n - 1)

\* 2^n modulo m
RECURSIVE Pow2Mod(_, _)
Pow2Mod(n, m) ==
  IF n = 0 THEN 1 % m
  ELSE IF n % 2 = 1 THEN (2 * Pow2Mod(n - 1, m)) % m
  ELSE LET half == Pow2Mod(n \div 2, m) IN (half * half) % m

\* x lies in [2^-t, 2^-(t-1)) for the least t with x * 2^t >= 1; a double of
\* that binade has 53 significant bits, so its unit in the last place is
\* 2^(7-t) times 2^-59.  Below 0.01 every multiple of 2^-59 is a double.
UlpExponent(x) ==
  IF x.h < 1 THEN 0
  ELSE LET AtLeastOne(t) ==
             \/ x.h * Pow2(t) > 100
             \/ x.h * Pow2(t) = 100 /\ x.d >= 0
           t == CHOOSE t \in 0..7 :
                  AtLeastOne(t) /\ \A s \in 0..(t - 1) : ~AtLeastOne(s)
       IN 7 - t

\* 2^59 modulo 100 * 2^k, for the exponents k that UlpExponent gives and the
\* next one
Residue59 == [k \in 0..8 |-> Pow2Mod(59, 100 * Pow2(k))]

\* the double nearest to the real number x, ties to the even significand
\* (the rounding of every float operation and of every float literal): r is
\* what x has below the last place, in parts of 1/(100 * 2^59)
Round(x) ==
  LET k == UlpExponent(x)
      m == 100 * Pow2(k)
      r == (x.h * Residue59[k] + x.d) % m
      r2 == (x.h * Residue59[k + 1] + x.d) % (2 * m)
      down == [h |-> x.h, d |-> x.d - r]
      up == [h |-> x.h, d |-> x.d + (m - r)]
  IN IF 2 * r < m THEN down
     ELSE IF 2 * r > m THEN up
     ELSE IF r2 = r THEN down ELSE up

\* the float a decimal literal of h hundredths denotes: Double(10) is 0.1
Double(h) == Round([h |-> h, d |-> 0])

\* the float 1
One == Double(100)

\* x < y
FLess(x, y) == x.h < y.h \/ (x.h = y.h /\ x.d < y.d)

\* x - y, for x >= y
FSub(x, y) == Round([h |-> x.h - y.h, d |-> x.d - y.d])

\* abs(x - y)
FAbsDiff(x, y) == IF FLess(x, y) THEN FSub(y, x) ELSE FSub(x, y)

\* min(x, y)
FMin(x, y) == IF FLess(y, x) THEN y ELSE x

\* ------------------------------------------------------------------ Entity

\* Entity.__init__: empty history, local_time 0, the given scale, no properties
NewEntity(sc) ==
  [interaction_history |-> <<>>, local_time |-> 0, scale |-> sc,
   properties |-> EmptyDict]

\* The scales the entities are constructed with: the literals 0.1, 0.12 and
\* 0.8 of test_fusion_rule, then one per further entity.
InitScale(e) ==
  CASE e = 1 -> Double(10)
    [] e = 2 -> Double(12)
    [] e = 3 -> Double(80)
    [] OTHER -> Double((37 * e) % 100)

\* ------------------------------------------------------------- Interaction

\* the guard of __init__ rejecting only an empty participant list
InteractionRaisesWhenEmpty(participants) == Len(participants) < 1

\* Interaction.__init__ raises ValueError for fewer than two participants
InteractionRaises(participants) == Len(participants) < 2

\* Interaction.__init__, for two participants or more; id is the uuid4 drawn
Interaction(participants, type, metadata, id) ==
  [id |-> id, participants |-> participants, interaction_type |-> type,
   metadata |-> metadata]

\* record_interaction putting the interaction in front of the history
RecordInteractionInFront(inter, e) ==
  [e EXCEPT !.interaction_history = <<inter>> \o @, !.local_time = @ + 1]

\* Interaction.record_interaction, on the fields e of one entity
RecordInteraction(inter, e) ==
  [e EXCEPT !.interaction_history = Append(@, inter), !.local_time = @ + 1]

\* apply_effects with the gravity branch assigning mass_change to mass
ApplyEffectsAssignMass(inter, e) ==
  CASE inter.interaction_type = "gravity" ->
         [e EXCEPT !.properties = Put(@, "mass", Get(inter.metadata, "mass_change", 1))]
    [] inter.interaction_type = "fusion" ->
         [e EXCEPT !.properties =
            Put(@, "energy", Get(@, "energy", 0) + Get(inter.metadata, "energy_gain", 10))]
    [] inter.interaction_type = "group_formed" ->
         [e EXCEPT !.properties =
            Put(@, "group_id", Get(inter.metadata, "group_id", NoneVal))]
    [] OTHER -> e

\* apply_effects with the group_formed branch keeping a group_id already set
ApplyEffectsKeepGroup(inter, e) ==
  CASE inter.interaction_type = "gravity" ->
         [e EXCEPT !.properties =
            Put(@, "mass", Get(@, "mass", 0) + Get(inter.metadata, "mass_change", 1))]
    [] inter.interaction_type = "fusion" ->
         [e EXCEPT !.properties =
            Put(@, "energy", Get(@, "energy", 0) + Get(inter.metadata, "energy_gain", 10))]
    [] inter.interaction_type = "group_formed" ->
         [e EXCEPT !.properties =
            Put(@, "group_id",
                Get(@, "group_id", Get(inter.metadata, "group_id", NoneVal)))]
    [] OTHER -> e

\* apply_effects with an else branch that treats every other type as gravity
ApplyEffectsElseGravity(inter, e) ==
  CASE inter.interaction_type = "fusion" ->
         [e EXCEPT !.properties =
            Put(@, "energy", Get(@, "energy", 0) + Get(inter.metadata, "energy_gain", 10))]
    [] inter.interaction_type = "group_formed" ->
         [e EXCEPT !.properties =
            Put(@, "group_id", Get(inter.metadata, "group_id", NoneVal))]
    [] OTHER ->
         [e EXCEPT !.properties =
            Put(@, "mass", Get(@, "mass", 0) + Get(inter.metadata, "mass_change", 1))]

\* Interaction.apply_effects, on the fields e of one entity
ApplyEffects(inter, e) ==
  CASE inter.interaction_type = "gravity" ->
         [e EXCEPT !.properties =
            Put(@, "mass", Get(@, "mass", 0) + Get(inter.metadata, "mass_change", 1))]
    [] inter.interaction_type = "fusion" ->
         [e EXCEPT !.properties =
            Put(@, "energy", Get(@, "energy", 0) + Get(inter.metadata, "energy_gain", 10))]
    [] inter.interaction_type = "group_formed" ->
         [e EXCEPT !.properties =
            Put(@, "group_id", Get(inter.metadata, "group_id", NoneVal))]
    [] OTHER -> e

\* ---------------------------------------------------------------- Observer

\* nx.MultiDiGraph(): nodes and edges in insertion order
EmptyGraph == [nodes |-> <<>>, edges |-> <<>>]

HasNode(g, id) == \E i \in 1..Len(g.nodes) : g.nodes[i].id = id

\* perceive_signal, lines 119-127: add the node with a snapshot of the entity,
\* or refresh properties and local_time of the node already there
UpsertNode(g, id, e) ==
  IF HasNode(g, id)
  THEN [g EXCEPT !.nodes =
          [i \in DOMAIN @ |->
             IF @[i].id = id
             THEN [@[i] EXCEPT !.properties = e.properties, !.local_time = e.local_time]
             ELSE @[i]]]
  ELSE [g EXCEPT !.nodes =
          Append(@, [id |-> id, properties |-> e.properties, scale |-> e.scale,
                     local_time |-> e.local_time])]

RECURSIVE UpsertNodes(_, _, _, _)
UpsertNodes(g, participants, k, es) ==
  IF k > Len(participants) THEN g
  ELSE UpsertNodes(UpsertNode(g, participants[k], es[participants[k]]),
                   participants, k + 1, es)

\* add_edge of a DiGraph: one edge per (u, v), whatever the key
AddEdgeKeyless(g, u, v, inter) ==
  LET ed == [u |-> u, v |-> v, key |-> inter.id, type |-> inter.interaction_type,
             metadata |-> inter.metadata]
  IN IF \E i \in 1..Len(g.edges) : g.edges[i].u = u /\ g.edges[i].v = v
     THEN [g EXCEPT !.edges =
             [i \in DOMAIN @ |-> IF @[i].u = u /\ @[i].v = v THEN ed ELSE @[i]]]
     ELSE [g EXCEPT !.edges = Append(@, ed)]

\* add_edge that adds an edge on every call, as it does when no key is given
AddEdgeAppend(g, u, v, inter) ==
  [g EXCEPT !.edges =
     Append(@, [u |-> u, v |-> v, key |-> inter.id, type |-> inter.interaction_type,
                metadata |-> inter.metadata])]

\* MultiDiGraph.add_edge(u, v, key=..., **attr): a new edge, or the attributes
\* of the edge (u, v, key) already there
AddEdge(g, u, v, inter) ==
  LET ed == [u |-> u, v |-> v, key |-> inter.id, type |-> inter.interaction_type,
             metadata |-> inter.metadata]
  IN IF \E i \in 1..Len(g.edges) :
          g.edges[i].u = u /\ g.edges[i].v = v /\ g.edges[i].key = inter.id
     THEN [g EXCEPT !.edges =
             [i \in DOMAIN @ |->
                IF @[i].u = u /\ @[i].v = v /\ @[i].key = inter.id THEN ed ELSE @[i]]]
     ELSE [g EXCEPT !.edges = Append(@, ed)]

\* perceive_signal without the guard of lines 114-115
PerceiveSignalAny(self, inter, g, es) ==
  LET g1 == UpsertNodes(g, inter.participants, 1, es)
  IN IF Len(inter.participants) = 2
     THEN AddEdge(AddEdge(g1, inter.participants[1], inter.participants[2], inter),
                  inter.participants[2], inter.participants[1], inter)
     ELSE g1

\* perceive_signal that builds the model anew from the interaction perceived
PerceiveSignalRebuilt(self, inter, g, es) ==
  IF ~Contains(inter.participants, self) THEN g
  ELSE LET g1 == UpsertNodes(EmptyGraph, inter.participants, 1, es)
       IN IF Len(inter.participants) = 2
          THEN AddEdge(AddEdge(g1, inter.participants[1], inter.participants[2], inter),
                       inter.participants[2], inter.participants[1], inter)
          ELSE g1

\* a perceive_signal that links the first two participants of every interaction
PerceiveSignalFirstTwo(self, inter, g, es) ==
  IF ~Contains(inter.participants, self) THEN g
  ELSE LET g1 == UpsertNodes(g, inter.participants, 1, es)
       IN IF Len(inter.participants) >= 2
          THEN AddEdge(AddEdge(g1, inter.participants[1], inter.participants[2], inter),
                       inter.participants[2], inter.participants[1], inter)
          ELSE g1

\* Observer.perceive_signal of observer self with graph g; es are the
\* entities' fields at the time of the call
PerceiveSignal(self, inter, g, es) ==
  IF ~Contains(inter.participants, self) THEN g
  ELSE LET g1 == UpsertNodes(g, inter.participants, 1, es)
       IN IF Len(inter.participants) = 2
          THEN AddEdge(AddEdge(g1, inter.participants[1], inter.participants[2], inter),
                       inter.participants[2], inter.participants[1], inter)
          ELSE g1

\* find_patterns, line 153: reality_model.number_of_nodes()
num_perceived_entities(g) == Len(g.nodes)

\* find_patterns, line 156: reality_model.number_of_edges()
num_perceived_relationships(g) == Len(g.edges)

\* the nodes that an undirected walk over the edges of g reaches from the
\* nodes of seen
RECURSIVE Component(_, _)
Component(g, seen) ==
  LET more == {g.edges[i].v : i \in {i \in 1..Len(g.edges) : g.edges[i].u \in seen}} \cup
              {g.edges[i].u : i \in {i \in 1..Len(g.edges) : g.edges[i].v \in seen}}
  IN IF more \subseteq seen THEN seen ELSE Component(g, seen \cup more)

\* find_patterns, line 171: nx.number_weakly_connected_components(reality_model)
num_perceived_clusters(g) ==
  Cardinality({Component(g, {g.nodes[k].id}) : k \in 1..Len(g.nodes)})

\* edges iterated in the order they were added
EdgesViewInsertion(g) == g.edges

\* reality_model.edges(keys=True, data=True), line 159: a MultiDiGraph keeps
\* its edges as adjacency[u][v][key], three dicts in insertion order, and
\* iterates them source by source in the order the nodes were added, then
\* neighbour by neighbour in the order the neighbours were first linked, then
\* key by key
EdgesView(g) ==
  LET RECURSIVE ByNeighbour(_)
      ByNeighbour(out) ==
        IF out = <<>> THEN <<>>
        ELSE SelectSeq(out, LAMBDA e : e.v = out[1].v)
               \o ByNeighbour(SelectSeq(out, LAMBDA e : e.v # out[1].v))
      RECURSIVE BySource(_)
      BySource(k) ==
        IF k > Len(g.nodes) THEN <<>>
        ELSE ByNeighbour(SelectSeq(g.edges, LAMBDA e : e.u = g.nodes[k].id))
               \o BySource(k + 1)
  IN BySource(1)

\* Counter(items).most_common(n): the n most frequent items with their
\* counts, the more frequent first, equally frequent ones in the order of their
\* first occurrence in items
most_common(items, n) ==
  LET keys == {items[i] : i \in 1..Len(items)}
      Count(x) == Cardinality({i \in 1..Len(items) : items[i] = x})
      FirstAt(x) == CHOOSE i \in 1..Len(items) :
                      items[i] = x /\ \A k \in 1..(i - 1) : items[k] # x
      Before(x, y) ==
        \/ Count(x) > Count(y)
        \/ Count(x) = Count(y) /\ FirstAt(x) < FirstAt(y)
      Rank(x) == 1 + Cardinality({y \in keys : Before(y, x)})
      size == IF Cardinality(keys) < n THEN Cardinality(keys) ELSE n
  IN [p \in 1..size |->
        LET x == CHOOSE x \in keys : Rank(x) = p IN <<x, Count(x)>>]

\* find_patterns, lines 159-161: patterns["most_frequent_interactions"]
most_frequent_interactions(g) ==
  LET view == EdgesView(g)
  IN most_common([i \in 1..Len(view) |-> view[i].type], 3)

\* find_patterns, lines 174-178: the Counter of the group_id values of the
\* nodes whose stored properties have the key "group_id"
GroupCounter(g) ==
  LET with == {i \in 1..Len(g.nodes) : "group_id" \in DOMAIN g.nodes[i].properties}
  IN [id \in {g.nodes[i].properties["group_id"] : i \in with} |->
        Cardinality({i \in with : g.nodes[i].properties["group_id"] = id})]

\* line 179 without its filter `if count > 1`
perceived_groups_unfiltered(g) == GroupCounter(g)

\* find_patterns, line 179: patterns["perceived_groups"]
perceived_groups(g) ==
  LET counter == GroupCounter(g)
  IN [id \in {x \in DOMAIN counter : counter[x] > 1} |-> counter[id]]

\* ---------------------------------------------------------- Universe.tick

\* tick, lines 234-235: perceive_signal is called on every participant that
\* is an Observer; seen is the record of these calls
PerceivedWith(seen, inter) ==
  [o \in DOMAIN seen |->
     IF Contains(inter.participants, o) THEN seen[o] \cup {inter} ELSE seen[o]]

\* a tick that records and applies each interaction on every entity there is
ProcessEveryEntity(inter, k, es, rm) ==
  [entity |-> [e \in DOMAIN es |-> ApplyEffects(inter, RecordInteraction(inter, es[e]))],
   reality_model |-> rm]

\* tick, lines 231-235: for each participant in order, record the interaction,
\* apply its effects and, if the participant is an Observer, let it perceive
RECURSIVE ProcessParticipants(_, _, _, _)
ProcessParticipants(inter, k, es, rm) ==
  IF k > Len(inter.participants) THEN [entity |-> es, reality_model |-> rm]
  ELSE LET p == inter.participants[k]
           es1 == [es EXCEPT ![p] = ApplyEffects(inter, RecordInteraction(inter, @))]
           rm1 == IF p \in Observers
                  THEN [rm EXCEPT ![p] = PerceiveSignal(p, inter, @, es1)]
                  ELSE rm
       IN ProcessParticipants(inter, k + 1, es1, rm1)

\* Collect with the rule's interactions put in front of the earlier ones
CollectInFront(acc, ret) == IF Truthy(ret) THEN ret.val \o acc ELSE acc

\* tick, lines 225-226: `if interactions: new_interactions.extend(interactions)`
Collect(acc, ret) == IF Truthy(ret) THEN acc \o ret.val ELSE acc

\* tick, line 228: self.interaction_history.extend(new_interactions)
ExtendHistory(history, new) == history \o new

\* ------------------------------------------------------------------- rules

\* a scale_distance that does not wrap around the ends of the spectrum
scale_distance_linear(scale1, scale2) == FAbsDiff(scale1, scale2)

\* scale_distance: min(abs(scale1 - scale2), 1 - abs(scale1 - scale2))
scale_distance(scale1, scale2) ==
  LET dist == FAbsDiff(scale1, scale2)
  IN FMin(dist, FSub(One, dist))

\* the fusion threshold, the literal 0.05
FusionThreshold == Double(5)

\* The outcomes of random.sample(roster, 2): two distinct positions, in order
Sample2(roster) ==
  {<<roster[i], roster[j]>> : <<i, j>> \in
     {q \in (1..Len(roster)) \X (1..Len(roster)) : q[1] # q[2]}}

\* scale_biased_encounter_rule: e1 is any entry of the roster; e2 any entry
\* that is another entity (every weight 1/(dist + 0.01) is positive, so
\* random.choices can return each of them)
scale_biased_encounter_rule(roster, es, uid) ==
  IF Len(roster) < 2 THEN {[ret |-> PyNone, uuid |-> uid]}
  ELSE UNION {
         LET e1 == roster[i]
             potential_e2s == {roster[j] : j \in {x \in 1..Len(roster) : roster[x] # e1}}
         IN IF potential_e2s = {} THEN {[ret |-> PyNone, uuid |-> uid]}
            ELSE {[ret |-> PyList(<<Interaction(<<e1, e2>>, "scale_biased_encounter",
                                                EmptyDict, uid)>>),
                   uuid |-> uid + 1] : e2 \in potential_e2s}
         : i \in 1..Len(roster)}

\* gravity_rule
gravity_rule(roster, es, uid) ==
  IF Len(roster) < 2 THEN {[ret |-> PyNone, uuid |-> uid]}
  ELSE {[ret |-> PyList(<<Interaction(participants, "gravity",
                                      Put(EmptyDict, "mass_change", 1), uid)>>),
         uuid |-> uid + 1] : participants \in Sample2(roster)}

\* a fusion_rule that leaves energy_gain to the default of apply_effects
fusion_rule_default_gain(roster, es, uid) ==
  LET fusion_candidates ==
        {<<roster[q[1]], roster[q[2]]>> : q \in
           {q \in (1..Len(roster)) \X (1..Len(roster)) :
              /\ q[1] < q[2]
              /\ FLess(scale_distance(es[roster[q[1]]].scale,
                                      es[roster[q[2]]].scale),
                       FusionThreshold)}}
  IN IF fusion_candidates = {} THEN {[ret |-> PyNone, uuid |-> uid]}
     ELSE {[ret |-> PyList(<<Interaction(c, "fusion", EmptyDict, uid)>>),
            uuid |-> uid + 1] : c \in fusion_candidates}

\* a fusion_rule whose candidates are the pairs closer than the threshold on
\* a spectrum that does not wrap around
fusion_rule_linear(roster, es, uid) ==
  LET fusion_candidates ==
        {<<roster[q[1]], roster[q[2]]>> : q \in
           {q \in (1..Len(roster)) \X (1..Len(roster)) :
              /\ q[1] < q[2]
              /\ FLess(scale_distance_linear(es[roster[q[1]]].scale,
                                             es[roster[q[2]]].scale),
                       FusionThreshold)}}
  IN IF fusion_candidates = {} THEN {[ret |-> PyNone, uuid |-> uid]}
     ELSE {[ret |-> PyList(<<Interaction(c, "fusion",
                                         Put(EmptyDict, "energy_gain", 5), uid)>>),
            uuid |-> uid + 1] : c \in fusion_candidates}

\* fusion_rule: the candidates are the position pairs i < j with close scales
fusion_rule(roster, es, uid) ==
  LET fusion_candidates ==
        {<<roster[q[1]], roster[q[2]]>> : q \in
           {q \in (1..Len(roster)) \X (1..Len(roster)) :
              /\ q[1] < q[2]
              /\ FLess(scale_distance(es[roster[q[1]]].scale,
                                      es[roster[q[2]]].scale),
                       FusionThreshold)}}
  IN IF fusion_candidates = {} THEN {[ret |-> PyNone, uuid |-> uid]}
     ELSE {[ret |-> PyList(<<Interaction(c, "fusion",
                                         Put(EmptyDict, "energy_gain", 5), uid)>>),
            uuid |-> uid + 1] : c \in fusion_candidates}

\* persistent_pair = None
NonePair == <<>>

\* max_interactions=5, the default of persistent_interaction_rule
DefaultMaxInteractions == 5

\* persistent_interaction_rule comparing with `<=` at line 389
persistent_interaction_rule_inclusive(roster, uid, pair, count, max) ==
  IF Len(roster) < 2
  THEN {[ret |-> PyNone, uuid |-> uid, pair |-> pair, count |-> count]}
  ELSE {LET c0 == IF pair = NonePair THEN 0 ELSE count
        IN IF c0 <= max
           THEN [ret |-> PyList(<<Interaction(p, "persistent_bond", EmptyDict, uid)>>),
                 uuid |-> uid + 1, pair |-> p, count |-> c0 + 1]
           ELSE [ret |-> PyNone, uuid |-> uid, pair |-> p, count |-> c0]
        : p \in IF pair = NonePair THEN Sample2(roster) ELSE {pair}}

\* a persistent_interaction_rule that samples its pair from the roster of
\* every call
persistent_interaction_rule_resampling(roster, uid, pair, count, max) ==
  IF Len(roster) < 2
  THEN {[ret |-> PyNone, uuid |-> uid, pair |-> pair, count |-> count]}
  ELSE {LET c0 == IF pair = NonePair THEN 0 ELSE count
        IN IF c0 < max
           THEN [ret |-> PyList(<<Interaction(p, "persistent_bond", EmptyDict, uid)>>),
                 uuid |-> uid + 1, pair |-> p, count |-> c0 + 1]
           ELSE [ret |-> PyNone, uuid |-> uid, pair |-> p, count |-> c0]
        : p \in Sample2(roster)}

\* persistent_interaction_rule, with the two globals passed in and out
persistent_interaction_rule(roster, uid, pair, count, max) ==
  IF Len(roster) < 2
  THEN {[ret |-> PyNone, uuid |-> uid, pair |-> pair, count |-> count]}
  ELSE {LET c0 == IF pair = NonePair THEN 0 ELSE count
        IN IF c0 < max
           THEN [ret |-> PyList(<<Interaction(p, "persistent_bond", EmptyDict, uid)>>),
                 uuid |-> uid + 1, pair |-> p, count |-> c0 + 1]
           ELSE [ret |-> PyNone, uuid |-> uid, pair |-> p, count |-> c0]
        : p \in IF pair = NonePair THEN Sample2(roster) ELSE {pair}}

\* interaction_threshold=2, the default of group_formation_rule
DefaultThreshold == 2

\* group_formation_rule, lines 340-344: the frozensets of the binary
\* interactions of one history, in order
RECURSIVE HistoryPairs(_, _)
HistoryPairs(h, k) ==
  IF k > Len(h) THEN <<>>
  ELSE (IF Len(h[k].participants) = 2
        THEN <<{h[k].participants[1], h[k].participants[2]}>>
        ELSE <<>>) \o HistoryPairs(h, k + 1)

\* group_formation_rule, lines 339-344: every increment of interaction_counts,
\* in order: the roster entries in order, each one's history in order
RECURSIVE ScanPairs(_, _, _)
ScanPairs(roster, es, i) ==
  IF i > Len(roster) THEN <<>>
  ELSE HistoryPairs(es[roster[i]].interaction_history, 1) \o ScanPairs(roster, es, i + 1)

\* interaction_counts[pair] after the scan
PairCount(scan, pair) == Cardinality({i \in 1..Len(scan) : scan[i] = pair})

\* the keys of interaction_counts in insertion order
RECURSIVE CounterKeys(_, _)
CounterKeys(scan, k) ==
  IF k > Len(scan) THEN <<>>
  ELSE (IF \E i \in 1..(k - 1) : scan[i] = scan[k] THEN <<>> ELSE <<scan[k]>>)
       \o CounterKeys(scan, k + 1)

\* line 364 giving the second entity's group_id whatever the first one's
MergedGroupIdOfSecond(group_id_e1, group_id_e2) == group_id_e2

\* group_formation_rule, line 364, reached with two different group ids of
\* which one may be None.  Group ids are uuid4 strings, which are truthy, so
\* the `else str(uuid.uuid4())` at the end of the line is never reached.
MergedGroupId(group_id_e1, group_id_e2) ==
  IF group_id_e1 # NoneVal THEN group_id_e1 ELSE group_id_e2

\* group_formation_rule, lines 346-368, from key k on.  acc holds the
\* interactions made so far, the uuid counter, whether line 348 raised, and the
\* frozensets whose order was read.
RECURSIVE GroupLoop(_, _, _, _, _, _, _)
GroupLoop(keys, k, scan, roster, es, ord, acc) ==
  IF k > Len(keys) \/ acc.raised THEN acc
  ELSE LET pair_ids == keys[k]
           next == k + 1
       IN IF PairCount(scan, pair_ids) < acc.threshold
          THEN GroupLoop(keys, next, scan, roster, es, ord, acc)
          ELSE IF Cardinality(pair_ids) # 2
          THEN [acc EXCEPT !.raised = TRUE]
          ELSE LET e1 == ord[pair_ids]
                   e2 == CHOOSE x \in pair_ids : x # e1
                   seen == [acc EXCEPT !.unpacked = @ \cup {pair_ids}]
                   group_id_e1 == Get(es[e1].properties, "group_id", NoneVal)
                   group_id_e2 == Get(es[e2].properties, "group_id", NoneVal)
               IN IF ~(Contains(roster, e1) /\ Contains(roster, e2))
                  THEN GroupLoop(keys, next, scan, roster, es, ord, seen)
                  ELSE IF group_id_e1 = NoneVal /\ group_id_e2 = NoneVal
                  THEN GroupLoop(keys, next, scan, roster, es, ord,
                         [seen EXCEPT
                            !.out = Append(@, Interaction(<<e1, e2>>, "group_formed",
                                      Put(EmptyDict, "group_id", acc.uuid), acc.uuid + 1)),
                            !.uuid = @ + 2])
                  ELSE IF group_id_e1 # group_id_e2
                  THEN GroupLoop(keys, next, scan, roster, es, ord,
                         [seen EXCEPT
                            !.out = Append(@, Interaction(<<e1, e2>>, "group_formed",
                                      Put(EmptyDict, "group_id",
                                          MergedGroupId(group_id_e1, group_id_e2)),
                                      acc.uuid)),
                            !.uuid = @ + 1])
                  ELSE GroupLoop(keys, next, scan, roster, es, ord, seen)

\* group_formation_rule(entities, interaction_threshold) under the set order ord
group_formation_rule(roster, es, uid, ord, interaction_threshold) ==
  LET scan == ScanPairs(roster, es, 1)
  IN GroupLoop(CounterKeys(scan, 1), 1, scan, roster, es, ord,
               [out |-> <<>>, uuid |-> uid, raised |-> FALSE, unpacked |-> {},
                threshold |-> interaction_threshold])

\* ----------------------------------------------------------------- state

\* The module just imported, a new Universe(), and the entities of Ent
\* constructed and not yet added
Init ==
  /\ entity = [e \in Ent |-> NewEntity(InitScale(e))]
  /\ reality_model = [o \in Observers |-> EmptyGraph]
  /\ entities = <<>>
  /\ interaction_rules = <<>>
  /\ interaction_history = <<>>
  /\ persistent_pair = NonePair
  /\ persistent_interaction_count = 0
  /\ next_uuid = 1
  /\ set_order = EmptyDict
  /\ pc = "idle"
  /\ rule_idx = 0
  /\ new_interactions = <<>>
  /\ apply_idx = 0
  /\ rule_outputs = <<>>
  /\ returned = <<>>
  /\ raised = FALSE
  /\ tick_start = entity
  /\ max_interactions = DefaultMaxInteractions
  /\ perceived = [o \in Observers |-> {}]

tickLocals == <<pc, rule_idx, new_interactions, apply_idx, rule_outputs, tick_start>>
globals == <<persistent_pair, persistent_interaction_count>>
universe == <<entities, interaction_rules, interaction_history>>

\* The rule functions, in the order the main block registers them
RuleNames ==
  <<"scale_biased_encounter_rule", "gravity_rule", "fusion_rule",
    "group_formation_rule", "persistent_interaction_rule">>

\* Universe.add_entity: each entity is added once, in the order of construction
AddEntity ==
  /\ pc = "idle"
  /\ Len(entities) + 1 \in Ent
  /\ interaction_history = <<>>
  /\ entities' = Append(entities, Len(entities) + 1)
  /\ UNCHANGED <<entity, reality_model, interaction_rules, interaction_history,
                 globals, next_uuid, set_order, tickLocals, returned, raised,
                 max_interactions, perceived>>

\* the position of a rule function in RuleNames
RuleRank(r) == CHOOSE i \in 1..Len(RuleNames) : RuleNames[i] = r

\* Universe.add_interaction_rule
Register(r) ==
  /\ pc = "idle"
  /\ interaction_rules' = Append(interaction_rules, r)
  /\ UNCHANGED <<entity, reality_model, entities, interaction_history,
                 globals, next_uuid, set_order, tickLocals, returned, raised,
                 max_interactions, perceived>>

\* the rule functions are registered in the order of the main block, each at
\* most once
AddRule(r) ==
  /\ Len(interaction_rules) < MaxRules
  /\ \A i \in 1..Len(interaction_rules) : RuleRank(interaction_rules[i]) < RuleRank(r)
  /\ Register(r)

\* tick is called: line 222
TickStart(limit) ==
  /\ pc = "idle"
  /\ Len(interaction_history) < limit
  /\ pc' = "rules"
  /\ rule_idx' = 1
  /\ new_interactions' = <<>>
  /\ rule_outputs' = <<>>
  /\ tick_start' = entity
  /\ raised' = FALSE
  /\ UNCHANGED <<entity, reality_model, universe, globals, next_uuid, set_order,
                 apply_idx, returned, max_interactions, perceived>>

\* tick, line 223: the loop is at rule `name`
AtRule(name) ==
  /\ pc = "rules"
  /\ rule_idx <= Len(interaction_rules)
  /\ interaction_rules[rule_idx] = name

\* RuleReturned for a rule that records and applies its interactions itself
RuleReturnedApplied(ret, uid) ==
  /\ new_interactions' = Collect(new_interactions, ret)
  /\ rule_outputs' = Append(rule_outputs, ret)
  /\ rule_idx' = rule_idx + 1
  /\ next_uuid' = uid
  /\ IF Truthy(ret)
     THEN LET r == ProcessParticipants(ret.val[1], 1, entity, reality_model)
          IN entity' = r.entity /\ reality_model' = r.reality_model
     ELSE UNCHANGED <<entity, reality_model>>
  /\ UNCHANGED <<universe, pc, apply_idx, returned, raised, tick_start,
                 max_interactions, perceived>>

\* tick, lines 224-226: the rule returned ret, having drawn uuids up to uid
RuleReturned(ret, uid) ==
  /\ new_interactions' = Collect(new_interactions, ret)
  /\ rule_outputs' = Append(rule_outputs, ret)
  /\ rule_idx' = rule_idx + 1
  /\ next_uuid' = uid
  /\ UNCHANGED <<entity, reality_model, universe, pc, apply_idx, returned, raised,
                 tick_start, max_interactions, perceived>>

\* a ValueError leaves tick: its locals are gone, nothing was recorded
TickRaised ==
  /\ pc' = "idle"
  /\ raised' = TRUE
  /\ rule_idx' = 0
  /\ new_interactions' = <<>>
  /\ rule_outputs' = <<>>
  /\ UNCHANGED <<entity, reality_model, universe, apply_idx, returned, next_uuid,
                 tick_start, max_interactions, perceived>>

TickRuleEncounter ==
  /\ AtRule("scale_biased_encounter_rule")
  /\ \E o \in scale_biased_encounter_rule(entities, entity, next_uuid) :
       RuleReturned(o.ret, o.uuid)
  /\ UNCHANGED <<globals, set_order>>

TickRuleGravity ==
  /\ AtRule("gravity_rule")
  /\ \E o \in gravity_rule(entities, entity, next_uuid) : RuleReturned(o.ret, o.uuid)
  /\ UNCHANGED <<globals, set_order>>

TickRuleFusion ==
  /\ AtRule("fusion_rule")
  /\ \E o \in fusion_rule(entities, entity, next_uuid) : RuleReturned(o.ret, o.uuid)
  /\ UNCHANGED <<globals, set_order>>

TickRulePersistent ==
  /\ AtRule("persistent_interaction_rule")
  /\ \E o \in persistent_interaction_rule(entities, next_uuid, persistent_pair,
                 persistent_interaction_count, max_interactions) :
       /\ RuleReturned(o.ret, o.uuid)
       /\ persistent_pair' = o.pair
       /\ persistent_interaction_count' = o.count
  /\ UNCHANGED set_order

\* group_formation_rule, line 348: the frozensets that `list(pair_ids)` may be
\* asked to list in this call
Listed(roster, es, interaction_threshold) ==
  LET scan == ScanPairs(roster, es, 1)
  IN {scan[i] : i \in {x \in 1..Len(scan) :
                         /\ PairCount(scan, scan[x]) >= interaction_threshold
                         /\ Cardinality(scan[x]) = 2}}

Lower(p) == CHOOSE x \in p : \A y \in p : x <= y
Higher(p) == CHOOSE x \in p : \A y \in p : y <= x

\* The iteration order of a frozenset of two uuids (which member list() gives
\* first) follows from their hashes: it is arbitrary, and the same every time
\* the same frozenset is listed.  known holds the orders seen so far; first is
\* the set of newly listed frozensets that give their lower entity first.
OrderWith(known, listed, first) ==
  [p \in (DOMAIN known) \cup listed |->
     IF p \in DOMAIN known THEN known[p]
     ELSE IF p \in first THEN Lower(p) ELSE Higher(p)]

Remember(known, ord, unpacked) ==
  [p \in (DOMAIN known) \cup unpacked |-> ord[p]]

TickRuleGroup ==
  /\ AtRule("group_formation_rule")
  /\ LET listed == Listed(entities, entity, DefaultThreshold) \ DOMAIN set_order
     IN \E first \in SUBSET listed :
          LET ord == OrderWith(set_order, listed, first)
              o == group_formation_rule(entities, entity, next_uuid, ord, DefaultThreshold)
          IN /\ set_order' = Remember(set_order, ord, o.unpacked)
             /\ IF o.raised THEN TickRaised ELSE RuleReturned(PyList(o.out), o.uuid)
  /\ UNCHANGED globals

\* tick, line 228
TickExtend ==
  /\ pc = "rules"
  /\ rule_idx > Len(interaction_rules)
  /\ interaction_history' = ExtendHistory(interaction_history, new_interactions)
  /\ pc' = "apply"
  /\ apply_idx' = 1
  /\ UNCHANGED <<entity, reality_model, entities, interaction_rules, globals,
                 next_uuid, set_order, rule_idx, new_interactions, rule_outputs,
                 returned, raised, tick_start, max_interactions, perceived>>

\* tick, lines 230-235, for one interaction of new_interactions
TickApply ==
  /\ pc = "apply"
  /\ apply_idx <= Len(new_interactions)
  /\ LET r == ProcessParticipants(new_interactions[apply_idx], 1, entity, reality_model)
     IN /\ entity' = r.entity
        /\ reality_model' = r.reality_model
  /\ perceived' = PerceivedWith(perceived, new_interactions[apply_idx])
  /\ apply_idx' = apply_idx + 1
  /\ UNCHANGED <<universe, globals, next_uuid, set_order, pc, rule_idx,
                 new_interactions, rule_outputs, returned, raised, tick_start,
                 max_interactions>>

\* tick, line 237
TickReturn ==
  /\ pc = "apply"
  /\ apply_idx > Len(new_interactions)
  /\ returned' = new_interactions
  /\ pc' = "idle"
  /\ rule_idx' = 0
  /\ apply_idx' = 0
  /\ new_interactions' = <<>>
  /\ rule_outputs' = <<>>
  /\ tick_start' = entity
  /\ UNCHANGED <<entity, reality_model, universe, globals, next_uuid, set_order,
                 raised, max_interactions, perceived>>

\* A rule written by the caller, as the tests register them
\* (guaranteed_interaction_rule, specific_interaction_rule): it returns [], or
\* constructs one Interaction and returns it in a list.  An input names the
\* participants, the type and the metadata; with fresh_group_id the metadata
\* get a group id drawn from uuid4 just before (test, lines 64-65).
custom_rule(inputs, uid) ==
  {[ret |-> PyList(<<>>), uuid |-> uid, raised |-> FALSE]} \cup
  {IF InteractionRaises(inp.participants)
   THEN [ret |-> PyNone, uuid |-> uid, raised |-> TRUE]
   ELSE IF inp.fresh_group_id
   THEN [ret |-> PyList(<<Interaction(inp.participants, inp.type,
                                      Put(inp.metadata, "group_id", uid), uid + 1)>>),
         uuid |-> uid + 2, raised |-> FALSE]
   ELSE [ret |-> PyList(<<Interaction(inp.participants, inp.type, inp.metadata, uid)>>),
         uuid |-> uid + 1, raised |-> FALSE]
   : inp \in inputs}

TickRuleCustom(inputs) ==
  /\ AtRule("custom_rule")
  /\ \E o \in custom_rule(inputs, next_uuid) :
       IF o.raised THEN TickRaised /\ UNCHANGED next_uuid
       ELSE RuleReturned(o.ret, o.uuid)
  /\ UNCHANGED <<globals, set_order>>

Input(participants, type, metadata, fresh) ==
  [participants |-> participants, type |-> type, metadata |-> metadata,
   fresh_group_id |-> fresh]

Next ==
  \/ AddEntity
  \/ \E i \in 1..Len(RuleNames) : AddRule(RuleNames[i])
  \/ TickStart(MaxHistory)
  \/ TickRuleEncounter
  \/ TickRuleGravity
  \/ TickRuleFusion
  \/ TickRuleGroup
  \/ TickRulePersistent
  \/ TickExtend
  \/ TickApply
  \/ TickReturn

Spec == Init /\ [][Next]_vars


\* ---------------------------------------------------------------- EffectSpec
\* A Universe set up as the tests do: the three entities added and one custom
\* rule registered, which constructs interactions of every type, with and
\* without metadata, between zero to three participants.

EffectParticipants ==
  {<<>>, <<2>>, <<1, 2>>, <<2, 1>>, <<2, 3>>, <<3, 1>>, <<2, 2>>, <<1, 2, 3>>}

EffectInputs ==
  {Input(ps, "gravity", EmptyDict, FALSE) : ps \in EffectParticipants} \cup
  {Input(ps, "gravity", Put(EmptyDict, "mass_change", 2), FALSE) : ps \in EffectParticipants} \cup
  {Input(ps, "fusion", EmptyDict, FALSE) : ps \in EffectParticipants} \cup
  {Input(ps, "fusion", Put(EmptyDict, "energy_gain", 5), FALSE) : ps \in EffectParticipants} \cup
  {Input(ps, "group_formed", EmptyDict, TRUE) : ps \in EffectParticipants} \cup
  {Input(ps, "group_formed", EmptyDict, FALSE) : ps \in EffectParticipants} \cup
  {Input(ps, "scale_biased_encounter", EmptyDict, FALSE) : ps \in EffectParticipants} \cup
  {Input(ps, "persistent_bond", EmptyDict, FALSE) : ps \in EffectParticipants}

TestInit ==
  /\ entity = [e \in Ent |-> NewEntity(InitScale(e))]
  /\ reality_model = [o \in Observers |-> EmptyGraph]
  /\ entities = <<1, 2, 3>>
  /\ interaction_rules = <<"custom_rule">>
  /\ interaction_history = <<>>
  /\ persistent_pair = NonePair
  /\ persistent_interaction_count = 0
  /\ next_uuid = 1
  /\ set_order = EmptyDict
  /\ pc = "idle"
  /\ rule_idx = 0
  /\ new_interactions = <<>>
  /\ apply_idx = 0
  /\ rule_outputs = <<>>
  /\ returned = <<>>
  /\ raised = FALSE
  /\ tick_start = entity
  /\ max_interactions = DefaultMaxInteractions
  /\ perceived = [o \in Observers |-> {}]

EffectNext ==
  \/ TickStart(MaxEffectHistory)
  \/ TickRuleCustom(EffectInputs)
  \/ TickExtend
  \/ TickApply
  \/ TickReturn

EffectSpec == TestInit /\ [][EffectNext]_vars

\* ----------------------------------------------------------------- GroupSpec
\* The Universe of test_group_formation_rule: three entities, a custom rule
\* that makes pairs interact (or hands their two members a new group id), and
\* group_formation_rule, registered at some point.

GroupInputs ==
  {Input(ps, "guaranteed_bond", EmptyDict, FALSE) : ps \in {<<1, 2>>, <<2, 3>>}} \cup
  {Input(ps, "group_formed", EmptyDict, TRUE) : ps \in {<<1, 2>>, <<2, 3>>}}

AddGroupRule ==
  /\ ~Contains(interaction_rules, "group_formation_rule")
  /\ Register("group_formation_rule")

GroupNext ==
  \/ AddGroupRule
  \/ TickStart(MaxGroupHistory)
  \/ TickRuleCustom(GroupInputs)
  \/ TickRuleGroup
  \/ TickExtend
  \/ TickApply
  \/ TickReturn

GroupSpec == TestInit /\ [][GroupNext]_vars

\* ------------------------------------------------------------------ BondSpec
\* The Universe of test_group_formation_rule: the caller's rule only makes
\* "guaranteed_bond" interactions (test, lines 227-230), so that every
\* group_formed interaction comes from group_formation_rule.

BondInputs ==
  {Input(ps, "guaranteed_bond", EmptyDict, FALSE) : ps \in {<<1, 2>>, <<2, 3>>}}

BondNext ==
  \/ AddGroupRule
  \/ TickStart(MaxGroupHistory)
  \/ TickRuleCustom(BondInputs)
  \/ TickRuleGroup
  \/ TickExtend
  \/ TickApply
  \/ TickReturn

BondSpec == TestInit /\ [][BondNext]_vars

\* --------------------------------------------------------------- PersistSpec
\* A Universe whose only rule is persistent_interaction_rule, called with
\* max_interactions = N on every tick, from the reset state of the globals
\* (test, lines 157-160 and 260): the rule is registered with N bound, as in
\* `lambda es: persistent_interaction_rule(es, N)`.  The rule registered bare,
\* as in Spec, is called with the default of line 375.

PersistInit ==
  /\ entity = [e \in Ent |-> NewEntity(InitScale(e))]
  /\ reality_model = [o \in Observers |-> EmptyGraph]
  /\ entities = <<>>
  /\ interaction_rules = <<"persistent_interaction_rule">>
  /\ interaction_history = <<>>
  /\ persistent_pair = NonePair
  /\ persistent_interaction_count = 0
  /\ next_uuid = 1
  /\ set_order = EmptyDict
  /\ pc = "idle"
  /\ rule_idx = 0
  /\ new_interactions = <<>>
  /\ apply_idx = 0
  /\ rule_outputs = <<>>
  /\ returned = <<>>
  /\ raised = FALSE
  /\ tick_start = entity
  /\ max_interactions \in 0..MaxN
  /\ perceived = [o \in Observers |-> {}]

PersistNext ==
  \/ AddEntity
  \/ TickStart(MaxN + 1)
  \/ TickRulePersistent
  \/ TickExtend
  \/ TickApply
  \/ TickReturn

PersistSpec == PersistInit /\ [][PersistNext]_vars

\* -------------------------------------------------------------- ObserverSpec
\* The Universe of test_observer_perceives_signal, with entity 1 the Observer:
\* ticks of a caller's rule, and perceive_signal called directly
\* (test_observer_finds_patterns) on an interaction of the global history or
\* on one constructed for the call.

ObserverParticipants == {<<1, 2>>, <<2, 1>>, <<2, 3>>, <<1, 2, 3>>}

ObserverInputs ==
  {Input(ps, "test_perceive", EmptyDict, FALSE) : ps \in ObserverParticipants} \cup
  {Input(ps, "group_formed", EmptyDict, TRUE) : ps \in ObserverParticipants}

DirectInputs ==
  {Input(ps, "type_A", EmptyDict, FALSE) : ps \in {<<1, 2>>, <<1, 3>>, <<2, 3>>}}

\* observer.perceive_signal(interaction), lines 109-141, called by the caller
PerceiveCall(o, inter) ==
  /\ reality_model' = [reality_model EXCEPT ![o] = PerceiveSignal(o, inter, @, entity)]
  /\ perceived' = [perceived EXCEPT ![o] = @ \cup {inter}]
  /\ UNCHANGED <<entity, universe, globals, set_order, tickLocals, returned, raised,
                 max_interactions>>

\* the interactions constructed so far
Constructed ==
  {interaction_history[i] : i \in 1..Len(interaction_history)} \cup
  UNION {perceived[o] : o \in Observers}

\* perceive_signal on an interaction that a tick produced or that was
\* perceived before
PerceiveRecorded ==
  /\ pc = "idle"
  /\ \E o \in Observers : \E inter \in Constructed : PerceiveCall(o, inter)
  /\ UNCHANGED next_uuid

\* perceive_signal(Interaction([...], interaction_type=...)) (test, line 137)
PerceiveNew ==
  /\ pc = "idle"
  /\ Cardinality(Constructed) < MaxPerceived
  /\ \E o \in Observers : \E inp \in DirectInputs :
       PerceiveCall(o, Interaction(inp.participants, inp.type, inp.metadata, next_uuid))
  /\ next_uuid' = next_uuid + 1

ObserverNext ==
  \/ TickStart(MaxObserverHistory)
  \/ TickRuleCustom(ObserverInputs)
  \/ TickExtend
  \/ TickApply
  \/ TickReturn
  \/ PerceiveRecorded
  \/ PerceiveNew

ObserverSpec == TestInit /\ [][ObserverNext]_vars

\* -------------------------------------------------------------- DistanceSpec
\* scale_distance called directly on the scales of two entities constructed
\* with float literals of whole hundredths: the last call, its arguments and
\* what it returned are kept in `returned`.

Hundredths == 0..100

\* two floats to call scale_distance with, and a third entity
DistanceInit ==
  /\ entity \in {[e \in Ent |-> NewEntity(IF e = 1 THEN Double(p[1])
                                           ELSE IF e = 2 THEN Double(p[2])
                                           ELSE InitScale(e))] :
                    p \in Hundredths \X Hundredths}
  /\ reality_model = [o \in Observers |-> EmptyGraph]
  /\ entities = <<>>
  /\ interaction_rules = <<>>
  /\ interaction_history = <<>>
  /\ persistent_pair = NonePair
  /\ persistent_interaction_count = 0
  /\ next_uuid = 1
  /\ set_order = EmptyDict
  /\ pc = "idle"
  /\ rule_idx = 0
  /\ new_interactions = <<>>
  /\ apply_idx = 0
  /\ rule_outputs = <<>>
  /\ returned = <<>>
  /\ raised = FALSE
  /\ tick_start = entity
  /\ max_interactions = DefaultMaxInteractions
  /\ perceived = [o \in Observers |-> {}]

\* the record of a direct call of a module-level function
Call(function, args, ret) == [function |-> function, args |-> args, ret |-> ret]

\* scale_distance(a.scale, b.scale), as lines 290 and 323 call it
CallScaleDistance ==
  /\ pc = "idle"
  /\ \E a \in Ent : \E b \in Ent :
       returned' = <<Call("scale_distance", <<entity[a].scale, entity[b].scale>>,
                          scale_distance(entity[a].scale, entity[b].scale))>>
  /\ UNCHANGED <<entity, reality_model, universe, globals, next_uuid, set_order,
                 tickLocals, raised, max_interactions, perceived>>

DistanceNext == CallScaleDistance

DistanceSpec == DistanceInit /\ [][DistanceNext]_vars

\* ------------------------------------------------------------------ RuleSpec
\* Entities constructed with scales written in hundredths, a roster built by
\* add_entity, and the rule functions of lines 280-329 called directly on
\* universe.entities, as the tests call them on a list.

EntityScales == {1, 5, 10, 15, 99}

RuleInit ==
  /\ entity \in [Ent -> {NewEntity(Double(h)) : h \in EntityScales}]
  /\ reality_model = [o \in Observers |-> EmptyGraph]
  /\ entities = <<>>
  /\ interaction_rules = <<>>
  /\ interaction_history = <<>>
  /\ persistent_pair = NonePair
  /\ persistent_interaction_count = 0
  /\ next_uuid = 1
  /\ set_order = EmptyDict
  /\ pc = "idle"
  /\ rule_idx = 0
  /\ new_interactions = <<>>
  /\ apply_idx = 0
  /\ rule_outputs = <<>>
  /\ returned = <<>>
  /\ raised = FALSE
  /\ tick_start = entity
  /\ max_interactions = DefaultMaxInteractions
  /\ perceived = [o \in Observers |-> {}]

\* Universe.add_entity, lines 205-207: it appends whatever entity it is given,
\* one that is in the roster already included
AddAnyEntity ==
  /\ pc = "idle"
  /\ Len(entities) < MaxRoster
  /\ \E e \in Ent : entities' = Append(entities, e)
  /\ UNCHANGED <<entity, reality_model, interaction_rules, interaction_history,
                 globals, next_uuid, set_order, tickLocals, returned, raised,
                 max_interactions, perceived>>

\* rule(universe.entities) returned o.ret, having drawn uuids up to o.uuid
RuleCalled(function, o) ==
  /\ returned' = <<Call(function, entities, o.ret)>>
  /\ next_uuid' = o.uuid
  /\ UNCHANGED <<entity, reality_model, universe, globals, set_order, tickLocals,
                 raised, max_interactions, perceived>>

CallEncounter ==
  /\ pc = "idle"
  /\ next_uuid <= MaxCalls
  /\ \E o \in scale_biased_encounter_rule(entities, entity, next_uuid) :
       RuleCalled("scale_biased_encounter_rule", o)

CallGravity ==
  /\ pc = "idle"
  /\ next_uuid <= MaxCalls
  /\ \E o \in gravity_rule(entities, entity, next_uuid) :
       RuleCalled("gravity_rule", o)

CallFusion ==
  /\ pc = "idle"
  /\ next_uuid <= MaxCalls
  /\ \E o \in fusion_rule(entities, entity, next_uuid) :
       RuleCalled("fusion_rule", o)

RuleNext ==
  \/ AddAnyEntity
  \/ CallEncounter
  \/ CallGravity
  \/ CallFusion

RuleSpec == RuleInit /\ [][RuleNext]_vars

\* ----------------------------------------------------------------- ResetSpec
\* persistent_interaction_rule called directly, as test_persistent_interaction_rule
\* calls it, with max_interactions = N on lists of entities that differ from
\* call to call, and the two globals reset between calls as setUp resets them.

\* the lists of distinct entities a caller can pass
Rosters ==
  {<<>>} \cup {<<a>> : a \in Ent} \cup
  {<<q[1], q[2]>> : q \in {q \in Ent \X Ent : q[1] # q[2]}} \cup
  {<<q[1], q[2], q[3]>> : q \in {q \in Ent \X Ent \X Ent :
                                    q[1] # q[2] /\ q[1] # q[3] /\ q[2] # q[3]}}

\* persistent_interaction_rule(roster, max_interactions)
CallPersistent ==
  /\ pc = "idle"
  /\ next_uuid <= MaxBonds
  /\ \E roster \in Rosters :
       \E o \in persistent_interaction_rule(roster, next_uuid, persistent_pair,
                    persistent_interaction_count, max_interactions) :
          /\ returned' = <<Call("persistent_interaction_rule", roster, o.ret)>>
          /\ next_uuid' = o.uuid
          /\ persistent_pair' = o.pair
          /\ persistent_interaction_count' = o.count
  /\ UNCHANGED <<entity, reality_model, universe, set_order, tickLocals, raised,
                 max_interactions, perceived>>

\* setUp, test lines 157-160: the globals are reset; no call has returned yet
ResetGlobals ==
  /\ pc = "idle"
  /\ persistent_pair' = NonePair
  /\ persistent_interaction_count' = 0
  /\ returned' = <<>>
  /\ UNCHANGED <<entity, reality_model, universe, next_uuid, set_order, tickLocals,
                 raised, max_interactions, perceived>>

ResetNext ==
  \/ CallPersistent
  \/ ResetGlobals

ResetSpec == PersistInit /\ [][ResetNext]_vars

\* --------------------------------------------------------------- PatternSpec
\* test_observer_finds_patterns: the Observer (entity 1) perceives interactions
\* constructed for the call, of several types, with another entity in either
\* position, with itself, or with two others, and one it takes no part in.

PatternTypes == {"type_A", "type_B", "type_C", "type_D"}

PatternInputs ==
  {Input(ps, type, EmptyDict, FALSE) :
     ps \in {<<1, 2>>, <<3, 1>>}, type \in PatternTypes} \cup
  {Input(<<1, 1>>, type, EmptyDict, FALSE) : type \in {"type_A", "type_B"}} \cup
  {Input(ps, "type_A", EmptyDict, FALSE) : ps \in {<<1, 2, 3>>, <<2, 3>>}}

\* observer.perceive_signal(Interaction([...], interaction_type=...)), test
\* lines 137-142
PerceivePattern ==
  /\ pc = "idle"
  /\ next_uuid <= MaxSignals
  /\ \E o \in Observers : \E inp \in PatternInputs :
       PerceiveCall(o, Interaction(inp.participants, inp.type, inp.metadata, next_uuid))
  /\ next_uuid' = next_uuid + 1

PatternNext == PerceivePattern

PatternSpec == TestInit /\ [][PatternNext]_vars

\* ---------------------------------------------------------------- SettleSpec
\* The Universe of test_group_formation_rule with tick called again and again,
\* and group_formation_rule registered at some point.  The caller's rule makes a guaranteed_bond for one of the pairs
\* 1-2 and 2-3 or returns [], and returns [] from some tick on, so that
\* group_formation_rule is then the only rule that produces interactions.  Every
\* tick in which group_formation_rule produces lengthens the histories, so the
\* guard of TickStart ends the run; a run that has not come to rest by then
\* stays where it is.

SeedInputs == IF Len(interaction_history) < MaxSeeds THEN BondInputs ELSE {}

SettleNext ==
  \/ AddGroupRule
  \/ TickStart(MaxSettleHistory)
  \/ TickRuleCustom(SeedInputs)
  \/ TickRuleGroup
  \/ TickExtend
  \/ TickApply
  \/ TickReturn

\* tick is called as long as the guard of TickStart allows, and a tick under
\* way runs to its return
SettleSpec == TestInit /\ [][SettleNext]_vars /\ WF_vars(SettleNext)

\* ==================================================================== claims

\* the interactions of the rule outputs, in order; None and [] give nothing
RECURSIVE Concatenated(_, _)
Concatenated(outs, k) ==
  IF k > Len(outs) THEN <<>>
  ELSE (IF outs[k].none THEN <<>> ELSE outs[k].val) \o Concatenated(outs, k + 1)

TickExtends == pc = "rules" /\ pc' = "apply"
TickReturns == pc = "apply" /\ pc' = "idle"

\* C1: a tick returns the concatenation of the outputs of all registered rules
\* in registration order (None and [] contributing nothing); the global
\* history is extended by exactly that sequence, once per tick, and changes at
\* no other moment, so it is the concatenation of the ticks' return values and
\* a tick in which no rule fires returns [] and leaves it unchanged.
C1_TickConcatenatesRuleOutputs ==
  [][(TickExtends =>
        /\ Len(rule_outputs) = Len(interaction_rules)
        /\ interaction_history' =
             interaction_history \o Concatenated(rule_outputs, 1))
     /\ (TickReturns =>
        /\ returned' = Concatenated(rule_outputs, 1)
        /\ Len(rule_outputs) = Len(interaction_rules)
        /\ \A i \in 1..Len(returned') :
             interaction_history[Len(interaction_history) - Len(returned') + i]
               = returned'[i])
     /\ (~TickExtends => interaction_history' = interaction_history)]_vars

\* a second tick has returned two interactions of two rules, the second a
\* group_formed, after a first tick that returned one
C1_Witness ==
  /\ pc = "idle"
  /\ Len(returned) = 2
  /\ Len(interaction_history) = 3
  /\ returned[1].interaction_type = "gravity"
  /\ returned[2].interaction_type = "group_formed"

InHistory(inter, e) ==
  \E i \in 1..Len(entity[e].interaction_history) :
     entity[e].interaction_history[i].id = inter.id

\* C2: while the rules of a tick are being called, every entity has the
\* history, local_time and properties it had when the tick began, and no
\* interaction produced in this tick is in any history.
C2_RulesSeeTickStartState ==
  pc = "rules" =>
    /\ entity = tick_start
    /\ \A i \in 1..Len(new_interactions) : \A e \in Ent :
         ~InHistory(new_interactions[i], e)

\* group_formation_rule is about to be called after an earlier rule of the
\* same tick produced an interaction between entities that have a history
C2_Witness ==
  /\ pc = "rules"
  /\ rule_idx = 2
  /\ Len(interaction_rules) = 2
  /\ interaction_rules[2] = "group_formation_rule"
  /\ Len(new_interactions) = 1
  /\ \A k \in 1..2 :
       entity[new_interactions[1].participants[k]].interaction_history # <<>>

\* the loop of lines 230-235 is over: the tick is about to return
EndOfTick == pc = "apply" /\ apply_idx > Len(new_interactions)

\* the tick produced the single interaction new_interactions[1] of this type
Produced(types) ==
  /\ EndOfTick
  /\ Len(new_interactions) = 1
  /\ new_interactions[1].interaction_type \in types

Occurrences(participants, e) ==
  Cardinality({k \in 1..Len(participants) : participants[k] = e})

\* history h grown by n copies of inter
RECURSIVE Grown(_, _, _)
Grown(h, inter, n) == IF n = 0 THEN h ELSE Grown(Append(h, inter), inter, n - 1)

\* C3: a tick that produces a gravity interaction between two distinct
\* entities with mass_change = k ends with each of the two having its mass
\* (0 when absent) raised by exactly k, its local_time by exactly 1 and its
\* history longer by exactly 1.
C3_GravityAddsMass ==
  Produced({"gravity"}) =>
    LET inter == new_interactions[1]
        ps == inter.participants
    IN (Len(ps) = 2 /\ ps[1] # ps[2] /\ "mass_change" \in DOMAIN inter.metadata) =>
         \A k \in 1..2 :
            LET was == tick_start[ps[k]]
                now == entity[ps[k]]
            IN /\ "mass" \in DOMAIN now.properties
               /\ now.properties["mass"] =
                    Get(was.properties, "mass", 0) + inter.metadata["mass_change"]
               /\ now.local_time = was.local_time + 1
               /\ Len(now.interaction_history) = Len(was.interaction_history) + 1

\* a second gravity interaction with mass_change 2 took a mass from 2 to 4
C3_Witness ==
  /\ Produced({"gravity"})
  /\ new_interactions[1].participants \in {<<1, 2>>, <<2, 1>>}
  /\ "mass_change" \in DOMAIN new_interactions[1].metadata
  /\ Get(tick_start[1].properties, "mass", 0) = 2
  /\ Get(entity[1].properties, "mass", 0) = 4

\* C4: a tick that produces a group_formed interaction ends with the group_id
\* of every participant equal to the group_id of the interaction's metadata,
\* whatever group_id the participant had before.
C4_GroupFormedSetsGroupId ==
  Produced({"group_formed"}) =>
    LET inter == new_interactions[1]
    IN \A k \in 1..Len(inter.participants) :
          LET now == entity[inter.participants[k]]
          IN /\ "group_id" \in DOMAIN now.properties
             /\ now.properties["group_id"] = Get(inter.metadata, "group_id", NoneVal)

\* a participant that was in another group has been moved to the new one
C4_Witness ==
  /\ Produced({"group_formed"})
  /\ "group_id" \in DOMAIN new_interactions[1].metadata
  /\ \E k \in 1..Len(new_interactions[1].participants) :
       LET p == new_interactions[1].participants[k]
       IN /\ Get(tick_start[p].properties, "group_id", NoneVal) # NoneVal
          /\ Get(tick_start[p].properties, "group_id", NoneVal)
               # new_interactions[1].metadata["group_id"]
          /\ entity[p].properties["group_id"] = new_interactions[1].metadata["group_id"]

OtherTypes == {"scale_biased_encounter", "persistent_bond"}

Held ==
  {interaction_history[i] : i \in 1..Len(interaction_history)} \cup
  {new_interactions[i] : i \in 1..Len(new_interactions)} \cup
  {returned[i] : i \in 1..Len(returned)} \cup
  UNION {{entity[e].interaction_history[i] :
            i \in 1..Len(entity[e].interaction_history)} : e \in Ent}

\* C6: constructing an interaction with fewer than two participants fails (the
\* code raises ValueError) and creates nothing: the tick in which a rule tried
\* it ends at once with every entity as it was and nothing added to a history,
\* so every interaction in any history has at least two participants.
C6_AtLeastTwoParticipants ==
  /\ \A inter \in Held : Len(inter.participants) >= 2
  /\ raised =>
       /\ pc = "idle"
       /\ entity = tick_start
       /\ new_interactions = <<>>
       /\ \A i \in 1..Len(interaction_history) :
            \A k \in 1..Len(interaction_history[i].participants) :
               InHistory(interaction_history[i], interaction_history[i].participants[k])

\* a rule's construction failed in a tick that followed a successful one
C6_Witness ==
  /\ raised
  /\ Len(interaction_history) = 1
  /\ entity[2].local_time = 1

\* the interactions of history h in which exactly a and b participate
CoParticipations(h, a, b) ==
  Cardinality({h[i].id : i \in {j \in 1..Len(h) :
                 /\ Len(h[j].participants) = 2
                 /\ {h[j].participants[1], h[j].participants[2]} = {a, b}}})

Roster == {entities[i] : i \in 1..Len(entities)}

GroupId(es, e) == Get(es[e].properties, "group_id", NoneVal)

\* group_formation_rule was the last rule called in the tick under way
GroupRuleCalled ==
  /\ pc = "rules"
  /\ rule_outputs # <<>>
  /\ interaction_rules[Len(rule_outputs)] = "group_formation_rule"

GroupRuleOutput == rule_outputs[Len(rule_outputs)].val

\* C7: group_formation_rule emits a group_formed interaction for a pair only
\* if the two have co-participated in at least 2 interactions in which exactly
\* those two participate, each interaction counted once; a pair with exactly
\* one such interaction gets none.
C7_GroupNeedsTwoCoParticipations ==
  GroupRuleCalled =>
    \A i \in 1..Len(GroupRuleOutput) :
       LET ps == GroupRuleOutput[i].participants
       IN CoParticipations(entity[ps[1]].interaction_history, ps[1], ps[2])
            >= DefaultThreshold

\* C8: a tick with group_formation_rule registered ends, for every pair of
\* distinct roster entities that had at least 2 co-participations when the tick
\* began, with a group_formed interaction for the pair in the global history
\* and with the two entities having the same non-null group_id.
C8_QualifyingPairsShareGroup ==
  (EndOfTick /\ \E i \in 1..Len(interaction_rules) :
                   interaction_rules[i] = "group_formation_rule") =>
    \A a \in Roster : \A b \in Roster :
       (a < b /\ CoParticipations(tick_start[a].interaction_history, a, b)
                   >= DefaultThreshold) =>
         /\ \E i \in 1..Len(interaction_history) :
              /\ interaction_history[i].interaction_type = "group_formed"
              /\ {interaction_history[i].participants[k] :
                    k \in 1..Len(interaction_history[i].participants)} = {a, b}
         /\ GroupId(entity, a) # NoneVal
         /\ GroupId(entity, a) = GroupId(entity, b)

\* the group_formed interactions of seq for the pair {a, b}
ForPair(seq, a, b) ==
  {i \in 1..Len(seq) :
     /\ seq[i].interaction_type = "group_formed"
     /\ {seq[i].participants[k] : k \in 1..Len(seq[i].participants)} = {a, b}}

\* the group ids in use apart from interaction inter: those the entities hold
\* and those of the group_formed interactions in the global history and in
\* the tick under way
GroupIdsInUse(inter) ==
  ({GroupId(entity, e) : e \in Ent} \ {NoneVal}) \cup
  {x.metadata["group_id"] :
     x \in {y \in Held : y.id # inter.id /\ "group_id" \in DOMAIN y.metadata}}

\* C9: when group_formation_rule has been called, for every pair of distinct
\* roster entities, on the group ids the two held at the call: at most one
\* group_formed interaction is emitted for the pair; one that is emitted
\* carries a fresh id, unused so far, if neither had a group id, the one
\* existing id if exactly one had, one of the two if they differed; none is
\* emitted if the two had the same group id; and one is emitted in the other
\* three cases whenever the pair has 2 co-participations or more.
C9_GroupIdCases ==
  GroupRuleCalled =>
    \A a \in Roster : \A b \in Roster : a < b =>
       LET emitted == ForPair(GroupRuleOutput, a, b)
           ga == GroupId(entity, a)
           gb == GroupId(entity, b)
       IN /\ Cardinality(emitted) <= 1
          /\ (ga # NoneVal /\ ga = gb) => emitted = {}
          /\ (/\ CoParticipations(entity[a].interaction_history, a, b) >= DefaultThreshold
              /\ ~(ga # NoneVal /\ ga = gb)) => emitted # {}
          /\ \A i \in emitted :
               LET inter == GroupRuleOutput[i]
                   id == Get(inter.metadata, "group_id", NoneVal)
               IN /\ id # NoneVal
                  /\ (ga = NoneVal /\ gb = NoneVal) => id \notin GroupIdsInUse(inter)
                  /\ (ga # NoneVal /\ gb = NoneVal) => id = ga
                  /\ (ga = NoneVal /\ gb # NoneVal) => id = gb
                  /\ (ga # NoneVal /\ gb # NoneVal) => id \in {ga, gb}

\* the rule merged a pair with two co-participations whose entities were in
\* two different groups
C9_Witness ==
  /\ GroupRuleCalled
  /\ \E a \in Roster : \E b \in Roster :
       /\ a < b
       /\ CoParticipations(entity[a].interaction_history, a, b) >= DefaultThreshold
       /\ GroupId(entity, a) # NoneVal
       /\ GroupId(entity, b) # NoneVal
       /\ GroupId(entity, a) # GroupId(entity, b)
       /\ ForPair(GroupRuleOutput, a, b) # {}

\* the persistent_bond interactions of seq
Bonds(seq) == {i \in 1..Len(seq) : seq[i].interaction_type = "persistent_bond"}

\* persistent_interaction_rule returns in this step, on a roster of two or more
PersistentRuleReturns ==
  /\ AtRule("persistent_interaction_rule")
  /\ Len(entities) >= 2
  /\ rule_idx' = rule_idx + 1

\* C10: called with max_interactions = N on a roster of two entities or more,
\* from the reset state, persistent_interaction_rule returns exactly one
\* persistent_bond interaction and adds 1 to the counter while the counter is
\* below N (the first N calls), and returns no interaction and leaves the
\* counter at N afterwards; the counter stays within 0..N and equals the number
\* of persistent_bond interactions emitted so far.
C10_PersistentRuleStopsAtN ==
  [][/\ 0 <= persistent_interaction_count'
     /\ persistent_interaction_count' <= max_interactions'
     /\ Cardinality(Bonds(interaction_history')) +
          (IF pc' = "rules" THEN Cardinality(Bonds(new_interactions')) ELSE 0)
          = persistent_interaction_count'
     /\ PersistentRuleReturns =>
          LET out == rule_outputs'[Len(rule_outputs')]
          IN IF persistent_interaction_count < max_interactions
             THEN /\ ~out.none
                  /\ Len(out.val) = 1
                  /\ out.val[1].interaction_type = "persistent_bond"
                  /\ persistent_interaction_count' = persistent_interaction_count + 1
             ELSE /\ ~Truthy(out)
                  /\ persistent_interaction_count = max_interactions
                  /\ persistent_interaction_count' = max_interactions]_vars

\* a call after the N-th returned nothing, N being 2
C10_Witness ==
  /\ pc = "rules"
  /\ rule_outputs # <<>>
  /\ ~Truthy(rule_outputs[Len(rule_outputs)])
  /\ max_interactions = 2
  /\ persistent_interaction_count = 2
  /\ Len(interaction_history) = 2

\* the ids of the participants of interaction x
ParticipantSet(x) == {x.participants[k] : k \in 1..Len(x.participants)}

\* what observer o was given to perceive and took part in
Own(seen, o) == {x \in seen[o] : o \in ParticipantSet(x)}

NodeIds(g) == {g.nodes[i].id : i \in 1..Len(g.nodes)}

EdgeIds(g) == {<<g.edges[i].u, g.edges[i].v, g.edges[i].key>> : i \in 1..Len(g.edges)}

\* graph g holds nothing but what the interactions of own account for
NoTrace(g, o, own) ==
  /\ \A i \in 1..Len(g.edges) :
       \E x \in own : /\ x.id = g.edges[i].key
                      /\ {g.edges[i].u, g.edges[i].v} \subseteq ParticipantSet(x)
  /\ \A n \in NodeIds(g) : n = o \/ \E x \in own : n \in ParticipantSet(x)

\* C11: after any ticks and direct perceive_signal calls, every edge of an
\* observer's reality_model is keyed by the id of an interaction that has the
\* observer among its participants, every node is the observer or a
\* participant of such an interaction, and a perceive_signal call with an
\* interaction that does not include the observer leaves reality_model as it was.
C11_NoTraceOfOthersInteractions ==
  [][\A o \in Observers :
       /\ NoTrace(reality_model'[o], o, Own(perceived', o))
       /\ (/\ perceived'[o] # perceived[o]
           /\ \A x \in perceived'[o] \ perceived[o] : o \notin ParticipantSet(x))
            => reality_model'[o] = reality_model[o]]_vars

\* the observer has a model and was also given an interaction between the two
\* other entities
C11_Witness ==
  /\ Len(reality_model[1].edges) = 2
  /\ \E x \in perceived[1] : ParticipantSet(x) = {2, 3}

\* x is a binary interaction between o and one other entity
WithOneOther(x, o) ==
  /\ Len(x.participants) = 2
  /\ o \in ParticipantSet(x)
  /\ Cardinality(ParticipantSet(x)) = 2

\* C12: when all that an observer has perceived are binary interactions between
\* itself and one other entity, find_patterns reports as num_perceived_entities
\* the number of distinct participants and as num_perceived_relationships
\* twice the number of distinct interactions, also with several interactions
\* between the same two.
C12_PatternCounts ==
  \A o \in Observers :
     (\A x \in perceived[o] : WithOneOther(x, o)) =>
        /\ num_perceived_entities(reality_model[o]) =
             Cardinality(UNION {ParticipantSet(x) : x \in perceived[o]})
        /\ num_perceived_relationships(reality_model[o]) =
             2 * Cardinality({x.id : x \in perceived[o]})

\* two interactions between the observer and entity 2 were perceived
C12_Witness ==
  /\ Cardinality(perceived[1]) = 2
  /\ \A x \in perceived[1] : ParticipantSet(x) = {1, 2} /\ Len(x.participants) = 2
  /\ num_perceived_relationships(reality_model[1]) = 4
  /\ num_perceived_entities(reality_model[1]) = 2

\* a perceive_signal call with an interaction that was perceived before
PerceivedAgain ==
  /\ pc = "idle"
  /\ pc' = "idle"
  /\ perceived' = perceived
  /\ next_uuid' = next_uuid

\* C13: perceiving an interaction a second time leaves the edges of
\* reality_model as they were, a binary interaction between two entities
\* having exactly its two directed edges; the nodes stay the same and only
\* their properties and local_time are refreshed.
C13_PerceivingAgainKeepsEdges ==
  [][\A o \in Observers :
       /\ \A x \in Own(perceived', o) :
            (Len(x.participants) = 2 /\ Cardinality(ParticipantSet(x)) = 2) =>
               /\ Cardinality({i \in 1..Len(reality_model'[o].edges) :
                                 reality_model'[o].edges[i].key = x.id}) = 2
               /\ <<x.participants[1], x.participants[2], x.id>>
                    \in EdgeIds(reality_model'[o])
               /\ <<x.participants[2], x.participants[1], x.id>>
                    \in EdgeIds(reality_model'[o])
       /\ PerceivedAgain =>
            /\ reality_model'[o].edges = reality_model[o].edges
            /\ Len(reality_model'[o].nodes) = Len(reality_model[o].nodes)
            /\ \A i \in 1..Len(reality_model[o].nodes) :
                 /\ reality_model'[o].nodes[i].id = reality_model[o].nodes[i].id
                 /\ reality_model'[o].nodes[i].scale = reality_model[o].nodes[i].scale]_vars

\* the one interaction the observer perceived was perceived again after a
\* later tick put entity 2 into a group: the node of entity 2 shows the group
C13_Witness ==
  /\ Len(interaction_history) = 2
  /\ perceived[1] = {interaction_history[1]}
  /\ interaction_history[1].interaction_type = "test_perceive"
  /\ interaction_history[2].interaction_type = "group_formed"
  /\ Len(reality_model[1].edges) = 2
  /\ \E i \in 1..Len(reality_model[1].nodes) :
       /\ reality_model[1].nodes[i].id = 2
       /\ "group_id" \in DOMAIN reality_model[1].nodes[i].properties

\* C14: an observer's reality_model only grows: no step removes a node or an
\* edge (source, target, interaction id), and the scale stored on a node
\* never changes.
C14_RealityModelGrows ==
  [][\A o \in Observers :
       /\ NodeIds(reality_model[o]) \subseteq NodeIds(reality_model'[o])
       /\ EdgeIds(reality_model[o]) \subseteq EdgeIds(reality_model'[o])
       /\ \A i \in 1..Len(reality_model[o].nodes) :
            \A j \in 1..Len(reality_model'[o].nodes) :
               reality_model'[o].nodes[j].id = reality_model[o].nodes[i].id =>
                 reality_model'[o].nodes[j].scale = reality_model[o].nodes[i].scale]_vars

\* the model has grown to three nodes and four edges
C14_Witness ==
  /\ Len(reality_model[1].nodes) = 3
  /\ Len(reality_model[1].edges) = 4

\* the nodes of g whose stored properties carry group_id = id
Carrying(g, id) ==
  {i \in 1..Len(g.nodes) :
     /\ "group_id" \in DOMAIN g.nodes[i].properties
     /\ g.nodes[i].properties["group_id"] = id}

\* C15: perceived_groups maps a group id to n exactly when n > 1 and exactly n
\* nodes of reality_model carry that group id in their stored properties; an
\* id carried by one node only, and nodes without group_id, do not appear.
C15_PerceivedGroups ==
  \A o \in Observers :
     LET groups == perceived_groups(reality_model[o])
     IN /\ DOMAIN groups \subseteq 0..next_uuid
        /\ \A id \in 0..next_uuid :
             LET n == Cardinality(Carrying(reality_model[o], id))
             IN /\ id \in DOMAIN groups <=> n > 1
                /\ id \in DOMAIN groups => groups[id] = n

\* one group with two perceived members is reported, and a node carries a
\* group id that is not
C15_Witness ==
  LET groups == perceived_groups(reality_model[1])
  IN /\ \E id \in DOMAIN groups : groups[id] = 2
     /\ \E i \in 1..Len(reality_model[1].nodes) :
          /\ "group_id" \in DOMAIN reality_model[1].nodes[i].properties
          /\ reality_model[1].nodes[i].properties["group_id"] \notin DOMAIN groups

\* the node of entity id in graph g
NodeOf(g, id) == g.nodes[CHOOSE i \in 1..Len(g.nodes) : g.nodes[i].id = id]

\* the loop of lines 230-235 has just processed new_interactions[apply_idx - 1]
JustProcessed == pc = "apply" /\ apply_idx > 1

\* C18: when an observer has perceived an interaction in a tick, the snapshot
\* it stored for every participant (properties and local_time) includes the
\* recording and the effect of that interaction on the participant, whatever
\* the place of the observer among the participants.
C18_SnapshotsIncludeTheEffect ==
  JustProcessed =>
    LET inter == new_interactions[apply_idx - 1]
    IN \A o \in Observers \cap ParticipantSet(inter) :
          \A p \in ParticipantSet(inter) :
             /\ HasNode(reality_model[o], p)
             /\ NodeOf(reality_model[o], p).properties = entity[p].properties
             /\ NodeOf(reality_model[o], p).local_time = entity[p].local_time

\* the direct calls of `function` on record
Calls(function) == {i \in 1..Len(returned) : returned[i].function = function}

\* the pairs of positions i < j of the roster whose entities are closer than
\* 0.05 by scale_distance
ClosePairs(roster) ==
  {q \in (1..Len(roster)) \X (1..Len(roster)) :
     /\ q[1] < q[2]
     /\ FLess(scale_distance(entity[roster[q[1]]].scale, entity[roster[q[2]]].scale),
              Double(5))}

\* C16: fusion_rule, on a roster whose scales are whole hundredths, returns
\* nothing when no pair of roster positions has scale_distance < 0.05, and
\* otherwise exactly one interaction of type "fusion" with energy_gain 5 whose
\* two participants are the entities of one such pair; the distance is cyclic,
\* so a roster holding the scales 0.01 and 0.99 gets a fusion; and the
\* participants of a fusion never have a scale_distance of 0.05 or more.
C16_FusionJoinsClosePairs ==
  \A i \in Calls("fusion_rule") :
     LET roster == returned[i].args
         ret == returned[i].ret
         close == ClosePairs(roster)
         scales == {entity[roster[k]].scale : k \in 1..Len(roster)}
     IN /\ {Double(1), Double(99)} \subseteq scales => Truthy(ret)
        /\ IF close = {}
           THEN ~Truthy(ret)
           ELSE /\ ~ret.none
                /\ Len(ret.val) = 1
                /\ ret.val[1].interaction_type = "fusion"
                /\ ret.val[1].metadata = Put(EmptyDict, "energy_gain", 5)
                /\ Len(ret.val[1].participants) = 2
                /\ \E q \in close :
                      ParticipantSet(ret.val[1]) = {roster[q[1]], roster[q[2]]}
                /\ FLess(scale_distance(entity[ret.val[1].participants[1]].scale,
                                        entity[ret.val[1].participants[2]].scale),
                         Double(5))

\* fusion_rule joined the entities of scales 0.01 and 0.99 of a roster that
\* also holds an entity far from both
C16_Witness ==
  \E i \in Calls("fusion_rule") :
     /\ Truthy(returned[i].ret)
     /\ Len(returned[i].args) = 3
     /\ {entity[e].scale : e \in ParticipantSet(returned[i].ret.val[1])}
          = {Double(1), Double(99)}
     /\ \E k \in 1..3 : entity[returned[i].args[k]].scale = Double(10)

\* the floats x and y differ by at most 2^-52
WithinRounding(x, y) ==
  /\ x.h = y.h
  /\ x.d - y.d <= 100 * Pow2(7)
  /\ y.d - x.d <= 100 * Pow2(7)

\* what every call of scale_distance satisfies, with or without rounding error
ScaleDistanceLaws(c) ==
  /\ c.ret = scale_distance(c.args[2], c.args[1])
  /\ c.args[1] = c.args[2] => c.ret = Double(0)
  /\ c.args = <<Double(0), Double(100)>> => c.ret = Double(0)
  /\ ~FLess(c.ret, Double(0))
  /\ ~FLess(Double(50), c.ret)

\* C17 as stated: scale_distance is symmetric, 0 for equal scales, 0 for the
\* scales 0 and 1, exactly 0.2 for the scales 0.1 and 0.9, and always within
\* [0, 0.5].
C17_ScaleDistanceExact ==
  \A i \in Calls("scale_distance") :
     /\ ScaleDistanceLaws(returned[i])
     /\ returned[i].args = <<Double(10), Double(90)>> => returned[i].ret = Double(20)

\* C17: scale_distance on scales of whole hundredths is symmetric, 0 for equal
\* scales, 0 for the scales 0 and 1, within [0, 0.5], and for the scales 0.1
\* and 0.9 it is 0.2 up to the rounding error of the float subtractions (it
\* is within 2^-52 of the float 0.2).
C17_ScaleDistanceUpToRounding ==
  \A i \in Calls("scale_distance") :
     /\ ScaleDistanceLaws(returned[i])
     /\ returned[i].args = <<Double(10), Double(90)>> =>
          WithinRounding(returned[i].ret, Double(20))

\* scale_distance(0.1, 0.9) returned a float that is not the float 0.2
C17_Witness ==
  \E i \in Calls("scale_distance") :
     /\ returned[i].args = <<Double(10), Double(90)>>
     /\ returned[i].ret # Double(20)
     /\ FLess(returned[i].ret, Double(20))

\* the entities of a roster
RosterSet(roster) == {roster[k] : k \in 1..Len(roster)}

\* C20: on every roster built with add_entity, the same entity added twice
\* included, scale_biased_encounter_rule and gravity_rule return nothing when
\* the roster has fewer than 2 entries, and otherwise exactly one interaction
\* with exactly two participants that are two distinct entities of the roster.
C20_TwoDistinctParticipants ==
  \A i \in Calls("scale_biased_encounter_rule") \cup Calls("gravity_rule") :
     LET roster == returned[i].args
         ret == returned[i].ret
     IN IF Len(roster) < 2
        THEN ~Truthy(ret)
        ELSE /\ ~ret.none
             /\ Len(ret.val) = 1
             /\ Len(ret.val[1].participants) = 2
             /\ ParticipantSet(ret.val[1]) \subseteq RosterSet(roster)
             /\ ret.val[1].participants[1] # ret.val[1].participants[2]

\* a step of a running tick
TickStep == pc # "idle" \/ pc' # "idle"

\* the property an interaction of this type has an effect on
EffectKey(type) ==
  CASE type = "gravity" -> "mass"
    [] type = "fusion" -> "energy"
    [] type = "group_formed" -> "group_id"
    [] OTHER -> "none"

\* the two property dicts agree on every key but k
SameBut(p, q, k) ==
  \A x \in (DOMAIN p \cup DOMAIN q) \ {k} :
     x \in DOMAIN p /\ x \in DOMAIN q /\ p[x] = q[x]

\* C19: a tick changes the properties, local_time and interaction_history of
\* an entity only while it processes an interaction that the tick produced
\* and that the entity participates in, and changes properties only in the
\* key that interaction's type has an effect on; every entity that
\* participates in none of the tick's interactions is at the end of the tick
\* as it was at its start; no step of a tick changes an entity's identity or
\* scale, the roster or the rule list.
C19_TickChangesParticipantsOnly ==
  [][TickStep =>
       /\ entities' = entities
       /\ interaction_rules' = interaction_rules
       /\ DOMAIN entity' = DOMAIN entity
       /\ \A e \in DOMAIN entity :
             /\ entity'[e].scale = entity[e].scale
             /\ (entity'[e] # entity[e]) =>
                  (/\ pc = "apply"
                   /\ apply_idx <= Len(new_interactions)
                   /\ Contains(Concatenated(rule_outputs, 1),
                               new_interactions[apply_idx])
                   /\ e \in ParticipantSet(new_interactions[apply_idx]))
             /\ (entity'[e].properties # entity[e].properties) =>
                  (/\ pc = "apply"
                   /\ apply_idx <= Len(new_interactions)
                   /\ new_interactions[apply_idx].interaction_type
                        \in {"gravity", "fusion", "group_formed"}
                   /\ SameBut(entity[e].properties, entity'[e].properties,
                              EffectKey(new_interactions[apply_idx].interaction_type)))
       /\ TickReturns =>
            \A e \in DOMAIN entity :
               (entity'[e] # tick_start[e]) =>
                  \E i \in 1..Len(returned') : e \in ParticipantSet(returned'[i])]_vars

\* at the end of a tick whose gravity interaction joined entities 1 and 2,
\* both have changed and entity 3 is as it was when the tick began
C19_Witness ==
  /\ Produced({"gravity"})
  /\ ParticipantSet(new_interactions[1]) = {1, 2}
  /\ entity[1].properties # tick_start[1].properties
  /\ entity[2].local_time = tick_start[2].local_time + 1
  /\ entity[3] = tick_start[3]

\* the step is a direct call of persistent_interaction_rule that returns
PersistentCallReturns ==
  /\ returned' # <<>>
  /\ returned'[1].function = "persistent_interaction_rule"

EdgeTypes(g) == {g.edges[i].type : i \in 1..Len(g.edges)}
EdgeCount(g, t) == Cardinality({i \in 1..Len(g.edges) : g.edges[i].type = t})

\* mfi lists, with their edge counts and in non-increasing count, at most 3
\* types of the edges of g, none of the others having more edges
TopThree(mfi, g) ==
  /\ Len(mfi) <= 3
  /\ Len(mfi) = 3 \/ Len(mfi) = Cardinality(EdgeTypes(g))
  /\ \A i \in 1..Len(mfi) :
        /\ mfi[i][1] \in EdgeTypes(g)
        /\ mfi[i][2] = EdgeCount(g, mfi[i][1])
        /\ \A j \in (i + 1)..Len(mfi) :
              mfi[i][1] # mfi[j][1] /\ mfi[i][2] >= mfi[j][2]
        /\ \A t \in EdgeTypes(g) \ {mfi[k][1] : k \in 1..Len(mfi)} :
              EdgeCount(g, t) <= mfi[i][2]

\* the two-participant interactions of type t that observer o perceived
Binary(o, t) ==
  {x \in Own(perceived, o) : x.interaction_type = t /\ Len(x.participants) = 2}

\* the listed types come before the types of the same count that come later
\* in the list or are not listed, in the order Earlier
TiesOrdered(mfi, g, Earlier(_, _)) ==
  \A i \in 1..Len(mfi) :
     /\ \A j \in (i + 1)..Len(mfi) :
           mfi[i][2] = mfi[j][2] => Earlier(mfi[i][1], mfi[j][1])
     /\ \A t \in EdgeTypes(g) \ {mfi[k][1] : k \in 1..Len(mfi)} :
           EdgeCount(g, t) = mfi[i][2] => Earlier(mfi[i][1], t)

\* observer o perceived an interaction of type t before any of type u
PerceivedFirst(o, t, u) ==
  \E x \in Binary(o, t) : \A y \in Binary(o, u) : x.id < y.id

IterationKey(g, i) ==
  LET e == g.edges[i]
      node == CHOOSE k \in 1..Len(g.nodes) : g.nodes[k].id = e.u
      same == {k \in 1..i : g.edges[k].u = e.u /\ g.edges[k].v = e.v}
      linked == CHOOSE k \in same : \A m \in same : k <= m
  IN <<node, linked, i>>

\* key a comes before key b
KeyBefore(a, b) ==
  \/ a[1] < b[1]
  \/ a[1] = b[1] /\ a[2] < b[2]
  \/ a[1] = b[1] /\ a[2] = b[2] /\ a[3] < b[3]

\* some edge of type t is iterated before every edge of type u
IteratedFirst(g, t, u) ==
  LET keys(type) == {IterationKey(g, i) :
                       i \in {k \in 1..Len(g.edges) : g.edges[k].type = type}}
      of_u == keys(u)
  IN \E a \in keys(t) : \A b \in of_u : KeyBefore(a, b)

IsPrefix(p, s) == Len(p) <= Len(s) /\ \A i \in 1..Len(p) : p[i] = s[i]

\* no interaction recorded so far has the same entity twice among its
\* participants
DistinctParticipants ==
  \A i \in 1..Len(interaction_history) :
     Cardinality(ParticipantSet(interaction_history[i]))
       = Len(interaction_history[i].participants)

\* every entity's local_time is the length of its history, and its history is
\* the interactions of the Universe's history it participates in, in the same
\* order, each once
HistoriesAgree ==
  \A e \in DOMAIN entity :
     /\ entity[e].local_time = Len(entity[e].interaction_history)
     /\ entity[e].interaction_history
          = SelectSeq(interaction_history, LAMBDA x : e \in ParticipantSet(x))

\* C23: after any sequence of ticks whose interactions have pairwise distinct
\* participants, every entity's local_time equals the length of its
\* interaction_history, which is exactly the subsequence of
\* Universe.interaction_history made of the interactions the entity
\* participates in; and no step removes or reorders an entry of a history.
C23_HistoriesAreSubsequences ==
  [][/\ (pc' = "idle" /\ DistinctParticipants') => HistoriesAgree'
     /\ IsPrefix(interaction_history, interaction_history')
     /\ \A e \in DOMAIN entity :
           /\ IsPrefix(entity[e].interaction_history, entity'[e].interaction_history)
           /\ entity[e].local_time <= entity'[e].local_time]_vars

\* after the ticks one entity has taken part in two interactions, and another
\* only in the second of the Universe's history
C23_Witness ==
  /\ pc = "idle"
  /\ Len(interaction_history) >= 2
  /\ \E e \in Ent : Len(entity[e].interaction_history) = 2
  /\ \E f \in Ent : entity[f].interaction_history = <<interaction_history[2]>>

\* the number of interactions of this type in the history of entity e
InHistoryOfType(e, type) ==
  Cardinality({i \in 1..Len(entity[e].interaction_history) :
                 entity[e].interaction_history[i].interaction_type = type})

\* C24: in a Universe with a duplicate-free roster that runs only the built-in
\* rules, every entity's mass (0 when absent) is the number of gravity
\* interactions in its history and its energy (0 when absent) is 5 times the
\* number of fusion interactions in its history, and no step lowers either.
C24_MassAndEnergyCountInteractions ==
  [][\A e \in DOMAIN entity :
       /\ Get(entity'[e].properties, "mass", 0) = InHistoryOfType(e, "gravity")'
       /\ Get(entity'[e].properties, "energy", 0) = 5 * InHistoryOfType(e, "fusion")'
       /\ Get(entity[e].properties, "mass", 0) <= Get(entity'[e].properties, "mass", 0)
       /\ Get(entity[e].properties, "energy", 0)
            <= Get(entity'[e].properties, "energy", 0)]_vars

\* a tick of gravity_rule and fusion_rule has given one entity mass 1 and
\* energy 5, and another entity neither
C24_Witness ==
  /\ pc = "idle"
  /\ \E e \in Ent :
       /\ Get(entity[e].properties, "mass", 0) = 1
       /\ Get(entity[e].properties, "energy", 0) = 5
       /\ Len(entity[e].interaction_history) = 2
  /\ \E f \in Ent : entity[f].properties = EmptyDict /\ Contains(entities, f)

\* the interactions that passed the guard of perceive_signal are all binary
OnlyBinary(o) == \A x \in Own(perceived, o) : Len(x.participants) = 2

\* every edge of g touches o and every other node of g is linked to o
Star(g, o) ==
  /\ \A i \in 1..Len(g.edges) : g.edges[i].u = o \/ g.edges[i].v = o
  /\ \A n \in NodeIds(g) \ {o} :
       \E i \in 1..Len(g.edges) : {g.edges[i].u, g.edges[i].v} = {o, n}

\* C25: every edge of an observer's reality_model has the observer's id as
\* source or target and is keyed by an interaction with exactly two
\* participants; an interaction with more than two participants adds its
\* participants as nodes and no edge; so while every perceived interaction is
\* binary the graph is a star around the observer and num_perceived_clusters
\* is 1 for a non-empty graph and 0 for an empty one.
C25_EdgesTouchTheObserver ==
  \A o \in Observers :
     LET g == reality_model[o]
     IN /\ \A i \in 1..Len(g.edges) :
             /\ g.edges[i].u = o \/ g.edges[i].v = o
             /\ \E x \in perceived[o] : /\ x.id = g.edges[i].key
                                        /\ Len(x.participants) = 2
        /\ \A x \in Own(perceived, o) :
             Len(x.participants) > 2 =>
               /\ ParticipantSet(x) \subseteq NodeIds(g)
               /\ \A i \in 1..Len(g.edges) : g.edges[i].key # x.id
        /\ OnlyBinary(o) =>
             /\ Star(g, o)
             /\ num_perceived_clusters(g) = IF g.nodes = <<>> THEN 0 ELSE 1

\* the observer has perceived binary interactions only, with two others and
\* with itself, and its graph of three nodes is one cluster
C25_Witness ==
  \E o \in Observers :
     /\ OnlyBinary(o)
     /\ \E x \in perceived[o] : o \notin ParticipantSet(x)
     /\ \E x \in perceived[o] : x.participants = <<o, o>>
     /\ Len(reality_model[o].nodes) = 3
     /\ Len(reality_model[o].edges) = 5
     /\ num_perceived_clusters(reality_model[o]) = 1

\* group_formation_rule is registered, and in the tick under way no other rule
\* has produced
OnlyGroupRuleProduces ==
  /\ Contains(interaction_rules, "group_formation_rule")
  /\ \A i \in 1..Len(rule_outputs) :
     Truthy(rule_outputs[i]) => interaction_rules[i] = "group_formation_rule"

\* in the tick under way no rule has produced
NothingProduced == \A i \in 1..Len(rule_outputs) : ~Truthy(rule_outputs[i])

\* every pair of roster entities with 2 co-participations or more holds one
\* group_id
PairsShareGroup ==
  \A a \in Roster : \A b \in Roster :
     (a < b /\ CoParticipations(entity[a].interaction_history, a, b)
                 >= DefaultThreshold) =>
       /\ GroupId(entity, a) # NoneVal
       /\ GroupId(entity, a) = GroupId(entity, b)

Alternating(es) ==
  /\ {{1, 2}, {2, 3}} \subseteq Listed(entities, es, DefaultThreshold)
  /\ {{1, 2}, {2, 3}} \subseteq DOMAIN set_order
  /\ set_order[{1, 2}] = 1
  /\ set_order[{2, 3}] = 3
  /\ GroupId(es, 1) # NoneVal
  /\ GroupId(es, 3) # NoneVal
  /\ GroupId(es, 1) # GroupId(es, 3)
  /\ GroupId(es, 2) \in {GroupId(es, 1), GroupId(es, 3)}

\* a tick that begins in such an assignment returns one group_formed
\* interaction, changes the group_id of entity 2 to the other of the two and
\* ends in such an assignment again: whatever the number of ticks, the rule
\* never stops producing
AlternationGoesOn ==
  [][(TickReturns /\ Alternating(tick_start)) =>
       /\ Len(new_interactions) = 1
       /\ new_interactions[1].interaction_type = "group_formed"
       /\ GroupId(entity', 2) # GroupId(tick_start, 2)
       /\ Alternating(entity')]_vars
====
